---- MODULE Spec2Model ----
(***************************************************************************)
(* A model of hercules' TreeDiff pipeline item (tree_diff.go): the         *)
(* previousTree baseline, the first-call file enumeration, the diff        *)
(* against the previous tree, and the in-place blacklist filter.           *)
(*                                                                         *)
(* Strings are sequences of one-character strings, so that                 *)
(* strings.HasPrefix is computed and not assumed.  An optional value (a Go *)
(* pointer or a nil-able result) is a sequence of length 0 (nil) or 1.     *)
(***************************************************************************)
EXTENDS Integers, Sequences, FiniteSets, TLC

(* ---------------------------------------------------------------------- *)
(* Bounds and the finite universe of inputs                                *)
(* ---------------------------------------------------------------------- *)

\* the largest number of files in a commit's tree
MaxFiles == 2

\* "main.go"
PathMain == <<"m", "a", "i", "n", ".", "g", "o">>
\* "vendor/lib.go"
PathVendorLib == <<"v", "e", "n", "d", "o", "r", "/", "l", "i", "b", ".", "g", "o">>
\* "vendor2/file"
PathVendor2 == <<"v", "e", "n", "d", "o", "r", "2", "/", "f", "i", "l", "e">>

\* the file paths of the model, in the order a tree enumerates them
PathList == <<PathMain, PathVendorLib, PathVendor2>>

\* the (mode, content-hash) pairs a file can have
BlobList ==
  << [Mode |-> "100644", Hash |-> "h1"],
     [Mode |-> "100644", Hash |-> "h2"],
     [Mode |-> "100755", Hash |-> "h1"] >>

None == <<>>
Some(x) == <<x>>

\* "vendor/", "vendors/", "node_modules/"
DirVendor == <<"v", "e", "n", "d", "o", "r", "/">>
DirVendors == <<"v", "e", "n", "d", "o", "r", "s", "/">>
DirNodeModules == <<"n", "o", "d", "e", "_", "m", "o", "d", "u", "l", "e", "s", "/">>
\* "vendor" without the trailing separator
DirVendorNoSep == <<"v", "e", "n", "d", "o", "r">>
\* the empty string
EmptyString == <<>>

defaultBlacklistedDirs == <<DirVendor, DirVendors, DirNodeModules>>

\* the blacklisted-dirs values a caller supplies
DirLists ==
  { defaultBlacklistedDirs, <<DirVendorNoSep>>, <<EmptyString>>, <<>> }

(* ---------------------------------------------------------------------- *)
(* Trees, tree entries and changes                                         *)
(* ---------------------------------------------------------------------- *)

\* the zero value of object.ChangeEntry: an absent side of a Change
NoEntry == [Name |-> EmptyString, Mode |-> "0", Hash |-> "0"]

FileEntry(name, blob) == [Name |-> name, Mode |-> blob.Mode, Hash |-> blob.Hash]

\* the blobs (indices into BlobList) each path takes in the model
BlobsAt == << {1, 2, 3}, {1, 2}, {1} >>

RECURSIVE TreeFrom(_, _)
\* the files of a tree, in enumeration order; slot[i] = 0 means PathList[i] is not in the tree
TreeFrom(slot, i) ==
  IF i > Len(PathList) THEN <<>>
  ELSE (IF slot[i] = 0 THEN <<>> ELSE <<FileEntry(PathList[i], BlobList[slot[i]])>>)
         \o TreeFrom(slot, i + 1)

Trees ==
  { TreeFrom(slot, 1) : slot \in
      { s \in [1..Len(PathList) -> 0..Len(BlobList)] :
          /\ \A i \in 1..Len(PathList) : s[i] \in {0} \cup BlobsAt[i]
          /\ Cardinality({i \in 1..Len(PathList) : s[i] # 0}) <= MaxFiles } }

\* the entry of a tree at a path, NoEntry when the tree has no such file
Lookup(t, name) ==
  IF \E i \in 1..Len(t) : t[i].Name = name
  THEN t[CHOOSE i \in 1..Len(t) : t[i].Name = name]
  ELSE NoEntry

\* HasPrefix, matching the prefix anywhere in s, as strings.Contains does
HasPrefixAnywhere(s, prefix) ==
  \E i \in 0..(Len(s) - Len(prefix)) : SubSeq(s, i + 1, i + Len(prefix)) = prefix

\* HasPrefix, refusing the empty prefix
HasPrefixNonEmpty(s, prefix) ==
  /\ Len(prefix) > 0
  /\ Len(s) >= Len(prefix)
  /\ SubSeq(s, 1, Len(prefix)) = prefix

\* strings.HasPrefix(s, prefix)
HasPrefix(s, prefix) ==
  /\ Len(s) >= Len(prefix)
  /\ SubSeq(s, 1, Len(prefix)) = prefix

RECURSIVE DiffFrom(_, _, _)
DiffFrom(a, b, i) ==
  IF i > Len(PathList) THEN <<>>
  ELSE LET ea == Lookup(a, PathList[i])
           eb == Lookup(b, PathList[i])
       IN (IF ea = eb THEN <<>> ELSE <<[From |-> ea, To |-> eb]>>)
            \o DiffFrom(a, b, i + 1)

\* object.DiffTree(a, b): one Change per path whose entry differs, in path order
DiffTree(a, b) == DiffFrom(a, b, 1)

(* ---------------------------------------------------------------------- *)
(* The filter (Consume, lines 125-139)                                     *)
(* ---------------------------------------------------------------------- *)

\* Blacklisted, looking at the new entry only
BlacklistedToOnly(change, dirs) ==
  \E k \in 1..Len(dirs) : HasPrefix(change.To.Name, dirs[k])

\* the inner loop over SkipDirs: some dir is a prefix of To.Name or of From.Name
Blacklisted(change, dirs) ==
  \E k \in 1..Len(dirs) :
    HasPrefix(change.To.Name, dirs[k]) \/ HasPrefix(change.From.Name, dirs[k])

\* AppendInPlace, growing filteredDiff by one without storing the element
AppendNoStore(arr, w, change) == arr

\* append(filteredDiff, change), filteredDiff being arr[:w]: it shares the
\* backing array of diff, so the element is stored at index w of that array
AppendInPlace(arr, w, change) ==
  IF w < Len(arr) THEN [arr EXCEPT ![w + 1] = change] ELSE Append(arr, change)

(* ---------------------------------------------------------------------- *)
(* Decisions of Configure, Initialize and Consume the properties depend on *)
(* ---------------------------------------------------------------------- *)

\* lines 72-74: SkipDirs after Configure; only skip = true assigns it
ConfiguredDirs(dirs, facts) ==
  IF facts.skip = "true" /\ facts.dirs # None THEN facts.dirs[1] ELSE dirs

\* ResetTree, leaving the field as it is
ResetTreeKeep(prev) == prev

\* line 80: treediff.previousTree = nil
ResetTree(prev) == None

\* DiffStage, with the operands of DiffTree exchanged
DiffStageSwapped(prev, t) == DiffTree(t, prev)

\* line 96: diff, err = object.DiffTree(treediff.previousTree, tree)
DiffStage(prev, t) == DiffTree(prev, t)

\* InsertionOf, leaving the Hash of the tree entry unset
InsertionOfNoHash(file) ==
  [From |-> NoEntry, To |-> [Name |-> file.Name, Mode |-> file.Mode, Hash |-> NoEntry.Hash]]

\* InsertionOf, filling From instead of To
InsertionOfAsFrom(file) ==
  [From |-> [Name |-> file.Name, Mode |-> file.Mode, Hash |-> file.Hash], To |-> NoEntry]

\* lines 113-115: the Change appended for an enumerated file
InsertionOf(file) ==
  [From |-> NoEntry, To |-> [Name |-> file.Name, Mode |-> file.Mode, Hash |-> file.Hash]]

\* TreeAfter, with the assignment of line 123 moved up to line 94
TreeAfterEager(prev, resolved, err) == IF resolved = None THEN prev ELSE resolved

\* previousTree when Consume returns err, having resolved the commit to
\* resolved (None when resolution failed): the assignment of line 123 is
\* behind the early returns of lines 92, 98 and 120
TreeAfter(prev, resolved, err) == IF err = "nil" THEN resolved ELSE prev

\* ErrResult, returning the Changes built so far with the error
ErrResultPartial(partial) == Some(partial)

\* lines 92, 98, 120: return nil, err; the Changes built so far are dropped
ErrResult(partial) == None

\* DeferredClose, as a Close() placed after the loop instead of a defer
CloseAfterLoop(exit, n) == IF exit = "eof" THEN n - 1 ELSE n

\* line 104: defer fileIter.Close() runs on both exits of the closure,
\* exit = "eof" (return nil) and exit = "err" (return err)
DeferredClose(exit, n) == n - 1

\* line 125: the filter runs only when SkipDirs is not empty
FilterEnabled(dirs) == Len(dirs) > 0

(* ---------------------------------------------------------------------- *)
(* State                                                                   *)
(* ---------------------------------------------------------------------- *)

VARIABLES
  previousTree,  \* TreeDiff.previousTree: None (nil) or Some(tree)
  SkipDirs,      \* TreeDiff.SkipDirs
  pc,            \* where Consume is: "idle", "iter" (lines 105-116), "filter" (lines 129-136)
  tree,          \* Consume's local tree
  diff,          \* Consume's local diff: the slice and its backing array
  rd,            \* filter loop: elements of diff already examined
  wr,            \* filter loop: len(filteredDiff)
  ret,           \* what the last Consume returned: [res, err]
  openIters,     \* file enumerations opened and not yet closed
  call,          \* history of the current or last Consume call
  lastOk,        \* history: tree of the last Consume that returned without error
                 \*          since the last Initialize
  failedSince,   \* history: a Consume failed since the last success or Initialize
  afterReset,    \* history: the last Initialize cleared a tree and no Consume
                 \*          has succeeded since
  cfg            \* history: outcome of the last Configure

vars ==
  <<previousTree, SkipDirs, pc, tree, diff, rd, wr, ret, openIters, call, lastOk,
    failedSince, afterReset, cfg>>

\* call.before is previousTree and call.prev is lastOk when the call began;
\* call.stage is the Changes of the diff stage, before the filter; call.pass,
\* call.input and call.first serve the filter applied twice: the pass that is
\* running, what the first pass was given and what it returned
NoCall ==
  [state |-> "none", before |-> None, prev |-> None, tree |-> None, branch |-> "none",
   stage |-> None, dirs |-> <<>>, retry |-> FALSE, reset |-> FALSE, cfg |-> "none",
   opened |-> 0, nexts |-> 0, fails |-> 0, pass |-> 0, input |-> None, first |-> None]

NoRet == [res |-> None, err |-> "none"]

\* the state of a TreeDiff{} as registered (line 144): both fields are zero values
Init ==
  /\ previousTree = None
  /\ SkipDirs = <<>>
  /\ pc = "idle"
  /\ tree = None
  /\ diff = <<>>
  /\ rd = 0
  /\ wr = 0
  /\ ret = NoRet
  /\ openIters = 0
  /\ call = NoCall
  /\ lastOk = None
  /\ failedSince = FALSE
  /\ afterReset = FALSE
  /\ cfg = "none"

\* the facts map handed to Configure: each key present or not
Facts ==
  [skip : {"absent", "true", "false"}, dirs : {None} \cup {Some(l) : l \in DirLists}]

(* ---------------------------------------------------------------------- *)
(* Operations                                                              *)
(* ---------------------------------------------------------------------- *)

\* a panic is not recovered here: it ends the program
Alive == cfg # "panic"

\* Configure, resetting the caches as Initialize does
ConfigureAndReset(facts) ==
  /\ Alive
  /\ pc = "idle"
  /\ SkipDirs' = ConfiguredDirs(SkipDirs, facts)
  /\ cfg' = IF facts.skip = "true"
            THEN (IF facts.dirs = None THEN "panic" ELSE "on")
            ELSE "off"
  /\ previousTree' = None
  /\ ret' = NoRet
  /\ call' = NoCall
  /\ UNCHANGED <<pc, tree, diff, rd, wr, openIters, lastOk, failedSince, afterReset>>

\* lines 71-75.  With skip true and no dirs key, facts[...] is a nil interface
\* and the type assertion .([]string) panics before SkipDirs is assigned.
Configure(facts) ==
  /\ Alive
  /\ pc = "idle"
  /\ SkipDirs' = ConfiguredDirs(SkipDirs, facts)
  /\ cfg' = IF facts.skip = "true"
            THEN (IF facts.dirs = None THEN "panic" ELSE "on")
            ELSE "off"
  /\ ret' = NoRet
  /\ call' = NoCall
  /\ UNCHANGED <<previousTree, pc, tree, diff, rd, wr, openIters, lastOk,
                 failedSince, afterReset>>

\* lines 79-81
Initialize ==
  /\ Alive
  /\ pc = "idle"
  /\ previousTree' = ResetTree(previousTree)
  /\ lastOk' = None
  /\ failedSince' = FALSE
  /\ afterReset' = (afterReset \/ lastOk # None)
  /\ ret' = NoRet
  /\ call' = NoCall
  /\ UNCHANGED <<SkipDirs, pc, tree, diff, rd, wr, openIters, cfg>>

\* Consume returns (res, err); its locals die
Return(res, err, c) ==
  /\ ret' = [res |-> res, err |-> err]
  /\ call' = [c EXCEPT !.state = "returned"]
  /\ previousTree' = TreeAfter(previousTree, c.tree, err)
  /\ lastOk' = IF err = "nil" THEN c.tree ELSE lastOk
  /\ failedSince' = (err # "nil")
  /\ afterReset' = (afterReset /\ err # "nil")
  /\ pc' = "idle"
  /\ tree' = None
  /\ diff' = <<>>
  /\ rd' = 0
  /\ wr' = 0

\* AfterDiffStage, with only the loop inside the if of line 125:
\* filteredDiff := diff[:0] and diff = filteredDiff run whatever SkipDirs is
AfterDiffStageGuardLoopOnly(d, c) ==
  IF FilterEnabled(SkipDirs)
  THEN /\ previousTree' = TreeAfter(previousTree, c.tree, "nil")
       /\ pc' = "filter"
       /\ diff' = d
       /\ rd' = 0
       /\ wr' = 0
       /\ call' = [c EXCEPT !.stage = Some(d)]
       /\ tree' = c.tree
       /\ ret' = NoRet
       /\ UNCHANGED <<lastOk, failedSince, afterReset>>
  ELSE Return(Some(<<>>), "nil", [c EXCEPT !.stage = Some(d)])

\* lines 123-140, entered when the diff stage produced d without error
AfterDiffStage(d, c) ==
  IF FilterEnabled(SkipDirs)
  THEN /\ previousTree' = TreeAfter(previousTree, c.tree, "nil")
       /\ pc' = "filter"
       /\ diff' = d
       /\ rd' = 0
       /\ wr' = 0
       /\ call' = [c EXCEPT !.stage = Some(d)]
       /\ tree' = c.tree
       /\ ret' = NoRet
       /\ UNCHANGED <<lastOk, failedSince, afterReset>>
  ELSE Return(Some(d), "nil", [c EXCEPT !.stage = Some(d)])

\* lines 89-104: resolve the tree, then diff against previousTree or open the
\* enumeration.  resolved is the outcome of commit.Tree(), diffOk that of DiffTree.
ConsumeBegin(resolved, diffOk) ==
  /\ Alive
  /\ pc = "idle"
  /\ LET c0 == [NoCall EXCEPT !.state = "running", !.before = previousTree,
                              !.prev = lastOk, !.tree = resolved, !.dirs = SkipDirs,
                              !.retry = failedSince, !.reset = afterReset, !.cfg = cfg]
     IN IF resolved = None
        THEN /\ Return(ErrResult(<<>>), "TreeResolutionError",
                       [c0 EXCEPT !.branch = "resolve", !.fails = 1])
             /\ UNCHANGED openIters
        ELSE IF previousTree # None
        THEN IF diffOk
             THEN /\ AfterDiffStage(DiffStage(previousTree[1], resolved[1]),
                                    [c0 EXCEPT !.branch = "diff"])
                  /\ UNCHANGED openIters
             ELSE /\ Return(ErrResult(<<>>), "DiffComputationError",
                            [c0 EXCEPT !.branch = "diff", !.fails = 1])
                  /\ UNCHANGED openIters
        ELSE /\ pc' = "iter"
             /\ tree' = resolved
             /\ diff' = <<>>
             /\ openIters' = openIters + 1
             /\ call' = [c0 EXCEPT !.branch = "enum", !.opened = 1]
             /\ ret' = NoRet
             /\ UNCHANGED <<previousTree, rd, wr, lastOk, failedSince, afterReset>>
  /\ UNCHANGED <<SkipDirs, cfg>>

\* IterNext, with a failed Next() answered by another turn of the loop
\* instead of the return of line 111
IterNextContinueOnError(nextOk) ==
  /\ Alive
  /\ pc = "iter"
  /\ LET c1 == [call EXCEPT !.nexts = @ + 1]
     IN IF ~nextOk
        THEN /\ call' = [c1 EXCEPT !.fails = @ + 1]
             /\ UNCHANGED <<previousTree, pc, tree, diff, rd, wr, ret, openIters, lastOk,
                            failedSince, afterReset>>
        ELSE IF Len(diff) < Len(tree[1])
        THEN /\ diff' = Append(diff, InsertionOf(tree[1][Len(diff) + 1]))
             /\ call' = c1
             /\ UNCHANGED <<previousTree, pc, tree, rd, wr, ret, openIters, lastOk,
                            failedSince, afterReset>>
        ELSE /\ openIters' = DeferredClose("eof", openIters)
             /\ AfterDiffStage(diff, c1)
  /\ UNCHANGED <<SkipDirs, cfg>>

\* lines 106-116: one fileIter.Next().  It yields the next file, reports io.EOF
\* after the last one, or fails (nextOk = FALSE) at any position.
IterNext(nextOk) ==
  /\ Alive
  /\ pc = "iter"
  /\ LET c1 == [call EXCEPT !.nexts = @ + 1]
     IN IF ~nextOk
        THEN /\ openIters' = DeferredClose("err", openIters)
             /\ Return(ErrResult(diff), "EnumerationError", [c1 EXCEPT !.fails = @ + 1])
        ELSE IF Len(diff) < Len(tree[1])
        THEN /\ diff' = Append(diff, InsertionOf(tree[1][Len(diff) + 1]))
             /\ call' = c1
             /\ UNCHANGED <<previousTree, pc, tree, rd, wr, ret, openIters, lastOk,
                            failedSince, afterReset>>
        ELSE /\ openIters' = DeferredClose("eof", openIters)
             /\ AfterDiffStage(diff, c1)
  /\ UNCHANGED <<SkipDirs, cfg>>

\* lines 129-136: one iteration of the OUTER loop
FilterStep ==
  /\ Alive
  /\ pc = "filter"
  /\ rd < Len(call.stage[1])
  /\ LET change == diff[rd + 1]
     IN IF Blacklisted(change, SkipDirs)
        THEN UNCHANGED <<diff, wr>>
        ELSE /\ diff' = AppendInPlace(diff, wr, change)
             /\ wr' = wr + 1
  /\ rd' = rd + 1
  /\ UNCHANGED <<previousTree, SkipDirs, pc, tree, ret, openIters, call, lastOk,
                 failedSince, afterReset, cfg>>

\* lines 138-140: diff = filteredDiff; return
FilterDone ==
  /\ Alive
  /\ pc = "filter"
  /\ rd = Len(call.stage[1])
  /\ Return(Some(SubSeq(diff, 1, wr)), "nil", call)
  /\ UNCHANGED <<SkipDirs, openIters, cfg>>

Next ==
  \/ \E facts \in Facts : Configure(facts)
  \/ Initialize
  \/ \E resolved \in {None} \cup {Some(t) : t \in Trees}, diffOk \in BOOLEAN :
       ConsumeBegin(resolved, diffOk)
  \/ \E nextOk \in BOOLEAN : IterNext(nextOk)
  \/ FilterStep
  \/ FilterDone

Spec == Init /\ [][Next]_vars

\* the steps inside Consume: the caller chooses when to call, but a call that
\* has begun runs on (Consume is synchronous and the enumeration is finite)
ConsumeStep ==
  \/ \E nextOk \in BOOLEAN : IterNext(nextOk)
  \/ FilterStep
  \/ FilterDone

SpecLive == Spec /\ WF_vars(ConsumeStep)

(* ---------------------------------------------------------------------- *)
(* The filter on its own: lines 125-140 applied to any Changes, and then   *)
(* once more to what they returned                                         *)
(* ---------------------------------------------------------------------- *)

\* the longest Changes list handed to the filter
MaxChanges == 3

\* "src/vendor/lib.go"
PathSrcVendor ==
  <<"s", "r", "c", "/", "v", "e", "n", "d", "o", "r", "/", "l", "i", "b", ".", "g", "o">>

\* the Changes a diff stage can hand to the filter: insertions, a deletion
\* and a modification
ChangePool ==
  { [From |-> NoEntry, To |-> FileEntry(PathMain, BlobList[1])],
    [From |-> NoEntry, To |-> FileEntry(PathVendorLib, BlobList[1])],
    [From |-> FileEntry(PathVendorLib, BlobList[1]), To |-> NoEntry],
    [From |-> FileEntry(PathVendor2, BlobList[1]), To |-> FileEntry(PathVendor2, BlobList[2])],
    [From |-> NoEntry, To |-> FileEntry(PathSrcVendor, BlobList[1])] }

ChangeSeqs == UNION { [1..n -> ChangePool] : n \in 0..MaxChanges }

\* the values of SkipDirs the filter is run with
FilterDirLists == DirLists \cup { <<DirVendor>> }

\* Consume stands at line 123 with some diff and some SkipDirs
InitFilter ==
  /\ previousTree = None
  /\ SkipDirs \in FilterDirLists
  /\ pc = "stage"
  /\ tree = None
  /\ diff \in ChangeSeqs
  /\ rd = 0
  /\ wr = 0
  /\ ret = NoRet
  /\ openIters = 0
  /\ call = [NoCall EXCEPT !.state = "running", !.dirs = SkipDirs, !.pass = 1]
  /\ lastOk = None
  /\ failedSince = FALSE
  /\ afterReset = FALSE
  /\ cfg = "none"

\* lines 123-127 on the given diff
ApplyStage ==
  /\ pc = "stage"
  /\ AfterDiffStage(diff, call)
  /\ UNCHANGED <<SkipDirs, openIters, cfg>>

\* lines 123-127 again, on the Changes the first pass returned
ApplyAgain ==
  /\ pc = "idle"
  /\ call.state = "returned"
  /\ call.pass = 1
  /\ AfterDiffStage(ret.res[1], [call EXCEPT !.state = "running", !.pass = 2,
                                  !.input = call.stage, !.first = ret.res])
  /\ UNCHANGED <<SkipDirs, openIters, cfg>>

NextFilter ==
  \/ ApplyStage
  \/ ApplyAgain
  \/ FilterStep
  \/ FilterDone

SpecFilter == InitFilter /\ [][NextFilter]_vars

(* ---------------------------------------------------------------------- *)
(* Properties                                                              *)
(* ---------------------------------------------------------------------- *)

\* Consume has returned and nothing was called since
Returned == pc = "idle" /\ call.state = "returned"

ReturnedOk == Returned /\ ret.err = "nil"

\* a Change with a new entry only
IsInsertion(change) == change.From = NoEntry /\ change.To # NoEntry

\* a Change with an old entry only
IsDeletion(change) == change.From # NoEntry /\ change.To = NoEntry

\* a Change with both entries
IsModification(change) == change.From # NoEntry /\ change.To # NoEntry

\* the contract of the first call: Changes c list the files of tree t, one
\* insertion per file, in enumeration order
IsFullListing(c, t) ==
  /\ Len(c) = Len(t)
  /\ \A i \in 1..Len(c) :
       /\ c[i].From = NoEntry
       /\ c[i].To.Name = t[i].Name
       /\ c[i].To.Mode = t[i].Mode
       /\ c[i].To.Hash = t[i].Hash
  /\ \A i, j \in 1..Len(c) : i # j => c[i].To.Name # c[j].To.Name
  /\ {c[i].To.Name : i \in 1..Len(c)} = {t[i].Name : i \in 1..Len(t)}

\* C1: with the filter disabled, a successful Consume that follows a
\* successful Consume on tree T1 returns, for its tree T2, exactly the
\* stateless DiffTree(T1, T2).
C1_IncrementalEqualsPairwise ==
  (ReturnedOk /\ call.prev # None /\ ~FilterEnabled(call.dirs))
    => ret.res = Some(DiffTree(call.prev[1], call.tree[1]))

\* a second call whose diff holds a modification, a deletion and an insertion
C1_Witness ==
  /\ ReturnedOk /\ call.prev # None /\ ~FilterEnabled(call.dirs)
  /\ call.branch = "diff"
  /\ \E i, j, k \in 1..Len(ret.res[1]) :
       /\ IsModification(ret.res[1][i])
       /\ IsDeletion(ret.res[1][j])
       /\ IsInsertion(ret.res[1][k])

\* C2: with the filter disabled, the first successful Consume after
\* Initialize or construction returns one insertion-only Change per file of
\* the tree, in enumeration order, with the file's path, mode and hash, no
\* path omitted or repeated; an empty tree gives an empty list.
C2_FirstCallFullListing ==
  (ReturnedOk /\ call.prev = None /\ ~FilterEnabled(call.dirs))
    => /\ ret.res # None
       /\ IsFullListing(ret.res[1], call.tree[1])
       /\ (call.tree[1] = <<>> => ret.res[1] = <<>>)

\* a first call on a tree of MaxFiles files
C2_Witness ==
  /\ ReturnedOk /\ call.prev = None /\ ~FilterEnabled(call.dirs)
  /\ call.branch = "enum"
  /\ Len(call.tree[1]) = MaxFiles
  /\ Len(ret.res[1]) = MaxFiles

\* C3: when Consume fails, previousTree is what it was when the call began;
\* a failed first call leaves it absent.
C3_FailureKeepsPreviousTree ==
  (Returned /\ ret.err # "nil")
    => /\ previousTree = call.before
       /\ (call.prev = None => previousTree = None)

\* a diff that failed against a stored tree, for a commit with another tree
C3_Witness ==
  /\ Returned /\ ret.err = "DiffComputationError"
  /\ call.before # None
  /\ call.tree # call.before

\* C4: between calls and during the enumeration, previousTree is the tree of
\* the last Consume that succeeded since the last Initialize, and absent when
\* there is none; once the diff stage of a call has succeeded (the call can
\* no longer fail) it is that call's tree.
C4_PreviousTreeIsLastSuccess ==
  /\ pc \in {"idle", "iter"} => previousTree = lastOk
  /\ pc = "filter" => previousTree = call.tree /\ call.tree # None

\* a failed call after a successful one: the baseline is still the older tree
C4_Witness ==
  /\ Returned /\ ret.err # "nil"
  /\ call.tree # None
  /\ lastOk # None
  /\ call.tree # lastOk
  /\ previousTree = lastOk

\* C5: Consume returns Changes and no error, or an error and no Changes;
\* the enumeration's end is no error; a failing step is attempted once.
C5_ResultXorError ==
  Returned =>
    /\ \/ ret.err = "nil" /\ ret.res # None
       \/ ret.err # "nil" /\ ret.res = None
    /\ ret.err \in {"nil", "TreeResolutionError", "DiffComputationError", "EnumerationError"}
    /\ (ret.err = "nil") = (call.fails = 0)
    /\ call.fails <= 1
    /\ call.branch = "enum" => call.nexts <= Len(call.tree[1]) + 1
    /\ (call.branch = "enum" /\ ret.err = "nil") => call.nexts = Len(call.tree[1]) + 1

\* the enumeration failed after it had yielded a file
C5_Witness ==
  /\ Returned /\ ret.err = "EnumerationError"
  /\ call.nexts >= 2
  /\ ret.res = None

\* the filter's contract: a Change touches prefix set P when the path of an
\* entry it has begins with a prefix of P
Touches(change, P) ==
  \E k \in 1..Len(P) :
    \/ change.From # NoEntry /\ HasPrefix(change.From.Name, P[k])
    \/ change.To # NoEntry /\ HasPrefix(change.To.Name, P[k])

\* the filter's contract: the subsequence of c that does not touch P
Apply(c, P) ==
  IF P = <<>> THEN c ELSE SelectSeq(c, LAMBDA change : ~Touches(change, P))

\* C6: a successful Consume that follows failed calls diffs against the tree
\* of the last successful call, not against a tree of a failed call: its diff
\* stage yields DiffTree(T1, T3), returned through the configured filter
\* (as it is when SkipDirs is empty).  When no call succeeded before the
\* failures it is a first call: a full listing of its tree.
C6_RetryDiffsAgainstLastSuccess ==
  (ReturnedOk /\ call.retry) =>
    /\ call.stage # None
    /\ IF call.prev # None
       THEN /\ call.branch = "diff"
            /\ call.stage[1] = DiffTree(call.prev[1], call.tree[1])
       ELSE /\ call.branch = "enum"
            /\ IsFullListing(call.stage[1], call.tree[1])
    /\ ret.res = Some(Apply(call.stage[1], call.dirs))
    /\ ~FilterEnabled(call.dirs) => ret.res = call.stage

\* a success after a failure, diffing two different trees, unfiltered
C6_Witness ==
  /\ ReturnedOk /\ call.retry
  /\ call.prev # None
  /\ call.prev # call.tree
  /\ ~FilterEnabled(call.dirs)
  /\ Len(ret.res[1]) >= 2

\* C7: after an Initialize previousTree is absent until a Consume succeeds,
\* and the first successful Consume lists its whole tree as insertions
\* (returned through the configured filter), whatever was consumed before
\* the Initialize; without an Initialize in between, a Consume after a
\* successful one takes the diff branch against that call's tree.
C7_InitializeStartsNewSequence ==
  /\ (afterReset /\ pc \in {"idle", "iter"}) => previousTree = None
  /\ (ReturnedOk /\ call.prev = None) =>
       /\ call.before = None
       /\ call.branch = "enum"
       /\ IsFullListing(call.stage[1], call.tree[1])
       /\ ret.res = Some(Apply(call.stage[1], call.dirs))
       /\ \A i \in 1..Len(ret.res[1]) : IsInsertion(ret.res[1][i])
  /\ (Returned /\ call.prev # None /\ call.tree # None) =>
       /\ call.before = call.prev
       /\ call.branch = "diff"
       /\ ret.err = "nil" => call.stage = Some(DiffTree(call.prev[1], call.tree[1]))

\* the first success after an Initialize that cleared a tree
C7_Witness ==
  /\ ReturnedOk /\ call.reset
  /\ call.branch = "enum"
  /\ ~FilterEnabled(call.dirs)
  /\ Len(ret.res[1]) >= 1

\* C8: with SkipDirs not empty, Consume returns exactly the subsequence of
\* the diff stage's Changes that do not touch SkipDirs, in their order.
C8_FilterIsSubsequence ==
  (ReturnedOk /\ FilterEnabled(call.dirs)) =>
    /\ ret.res = Some(SelectSeq(call.stage[1], LAMBDA change : ~Touches(change, call.dirs)))
    /\ Len(ret.res[1]) <= Len(call.stage[1])

\* a deletion under vendor/ is dropped from between two retained Changes
C8_Witness ==
  /\ ReturnedOk /\ FilterEnabled(call.dirs)
  /\ Len(call.stage[1]) = Len(ret.res[1]) + 1
  /\ Len(ret.res[1]) = 2
  /\ IsDeletion(call.stage[1][2])
  /\ Touches(call.stage[1][2], call.dirs)
  /\ ret.res[1] = <<call.stage[1][1], call.stage[1][3]>>

\* C9: an enumeration is open exactly while Consume is in its enumeration
\* loop: none is open once Consume has returned, by either exit, and only
\* the first-call branch opens one.
C9_EnumerationClosed ==
  /\ openIters = (IF pc = "iter" THEN 1 ELSE 0)
  /\ Returned => call.opened = (IF call.branch = "enum" THEN 1 ELSE 0)

\* the enumeration failed part-way and is closed
C9_Witness ==
  /\ Returned /\ ret.err = "EnumerationError"
  /\ call.nexts >= 2
  /\ call.opened = 1
  /\ openIters = 0

\* C10: after Configure with skip-blacklist false or absent, SkipDirs is
\* empty and every later Consume returns the diff stage's Changes unfiltered.
C10_SkipOffMeansNoFilter ==
  /\ (pc = "idle" /\ cfg = "off") => SkipDirs = <<>>
  /\ (ReturnedOk /\ call.cfg = "off") => ret.res = call.stage

\* C11: Configure with skip-blacklist true never fails and makes SkipDirs
\* the blacklisted-dirs list: the supplied one, or defaultBlacklistedDirs
\* when the facts hold none.
C11_SkipOnSetsDirs ==
  [][\A facts \in Facts :
       (Configure(facts) /\ facts.skip = "true") =>
         /\ cfg' = "on"
         /\ SkipDirs' = (IF facts.dirs = None THEN defaultBlacklistedDirs ELSE facts.dirs[1])]_vars

\* C12: the filter is idempotent: applied to what it returned, with the
\* same prefix set, it returns the same Changes.
C12_FilterIdempotent ==
  (pc = "idle" /\ call.state = "returned" /\ call.pass = 2) => ret.res = call.first

\* the first pass dropped Changes and kept others, and the second pass is done
C12_Witness ==
  /\ pc = "idle" /\ call.state = "returned" /\ call.pass = 2
  /\ FilterEnabled(SkipDirs)
  /\ Len(call.input[1]) > Len(call.first[1])
  /\ Len(ret.res[1]) >= 2
  /\ ret.res = call.first

\* the Changes that list tree t: one insertion per file, in order
Listing(t) == [i \in 1..Len(t) |-> [From |-> NoEntry, To |-> t[i]]]

\* what the diff stage owes for tree t after the successful call on prev
\* (None: no such call)
StageOutput(prev, t) == IF prev = None THEN Listing(t) ELSE DiffTree(prev[1], t)

\* C13: with SkipDirs empty Consume returns the Changes of the diff stage
\* as they are: the same elements in the same order.
C13_EmptySkipDirsIsIdentity ==
  (ReturnedOk /\ call.dirs = <<>>) =>
    /\ ret.res = call.stage
    /\ ret.res = Some(StageOutput(call.prev, call.tree[1]))

\* an unfiltered result that holds a Change under vendor/ among others
C13_Witness ==
  /\ ReturnedOk /\ call.dirs = <<>>
  /\ Len(ret.res[1]) >= 2
  /\ \E i \in 1..Len(ret.res[1]) : Touches(ret.res[1][i], <<DirVendor>>)

\* C14: with SkipDirs not empty, every successful Consume returns the filter
\* applied to what the call owes with the filter disabled (the listing of
\* its tree on a first call, DiffTree against the last successful call's
\* tree afterwards), and previousTree becomes the call's whole tree: what
\* the filter drops never changes the baseline of a later call.
C14_FilterLeavesBaselineAlone ==
  (ReturnedOk /\ FilterEnabled(call.dirs)) =>
    /\ call.stage = Some(StageOutput(call.prev, call.tree[1]))
    /\ ret.res = Some(Apply(StageOutput(call.prev, call.tree[1]), call.dirs))
    /\ previousTree = call.tree
    /\ lastOk = call.tree

\* a filtered call whose baseline is a tree with a file under vendor/: the
\* earlier call's tree was stored whole, and this call drops a Change
C14_Witness ==
  /\ ReturnedOk /\ FilterEnabled(call.dirs)
  /\ call.prev # None
  /\ \E i \in 1..Len(call.prev[1]) : HasPrefix(call.prev[1][i].Name, DirVendor)
  /\ \E i \in 1..Len(previousTree[1]) : HasPrefix(previousTree[1][i].Name, DirVendor)
  /\ Len(ret.res[1]) >= 1
  /\ Len(ret.res[1]) < Len(call.stage[1])

\* the Changes of c that have an entry at path
At(c, path) ==
  SelectSeq(c, LAMBDA change : change.From.Name = path \/ change.To.Name = path)

\* C15: the filter matches a prefix literally, at the start of the path, and
\* knows nothing of path segments: with the prefix "vendor" every Change at
\* "vendor2/file" is dropped, with "vendor/" every Change at "vendor2/file"
\* and at "src/vendor/lib.go" is retained, and "vendor" retains
\* "src/vendor/lib.go" too.
C15_LiteralPrefixMatch ==
  (pc = "idle" /\ call.state = "returned") =>
    /\ call.dirs = <<DirVendorNoSep>> =>
         /\ At(ret.res[1], PathVendor2) = <<>>
         /\ At(ret.res[1], PathVendorLib) = <<>>
         /\ At(ret.res[1], PathSrcVendor) = At(call.stage[1], PathSrcVendor)
    /\ call.dirs = <<DirVendor>> =>
         /\ At(ret.res[1], PathVendor2) = At(call.stage[1], PathVendor2)
         /\ At(ret.res[1], PathSrcVendor) = At(call.stage[1], PathSrcVendor)
         /\ At(ret.res[1], PathVendorLib) = <<>>

\* "vendor" has dropped a Change at "vendor2/file" and kept one at
\* "src/vendor/lib.go"
C15_Witness ==
  /\ pc = "idle" /\ call.state = "returned" /\ call.pass = 1
  /\ call.dirs = <<DirVendorNoSep>>
  /\ At(call.stage[1], PathVendor2) # <<>>
  /\ At(call.stage[1], PathSrcVendor) # <<>>
  /\ At(ret.res[1], PathVendor2) = <<>>
  /\ At(ret.res[1], PathSrcVendor) # <<>>

\* C16: every Consume that has begun returns.  In the enumeration loop each
\* Next() so far has yielded one file of the tree, so the loop takes at most
\* one turn per file and one more for io.EOF or the failure that ends it;
\* the call returns one outcome, Changes or an error.
C16_ConsumeTerminates ==
  /\ [](pc = "iter" => /\ call.nexts = Len(diff)
                       /\ Len(diff) <= Len(tree[1])
                       /\ call.fails = 0)
  /\ []((Returned /\ call.branch = "enum") =>
          /\ call.nexts <= Len(call.tree[1]) + 1
          /\ ret.err = "nil" => call.nexts = Len(call.tree[1]) + 1
          /\ (ret.err = "nil" /\ ret.res # None) \/ (ret.err # "nil" /\ ret.res = None))
  /\ []((pc = "filter") => rd <= Len(call.stage[1]))
  /\ (pc # "idle") ~> (pc = "idle")

\* a first call on a tree of MaxFiles files has returned after MaxFiles + 1
\* turns of the loop
C16_Witness ==
  /\ ReturnedOk /\ call.branch = "enum"
  /\ Len(call.tree[1]) = MaxFiles
  /\ call.nexts = MaxFiles + 1

\* a step that enters Consume: only ConsumeBegin leaves a call running or
\* returned when taken between calls
BeginsConsume == pc = "idle" /\ call'.state \in {"running", "returned"}

\* C17: Initialize and the steps of Consume leave SkipDirs as it is and
\* Configure leaves previousTree as it is.  SkipDirs changes only in a
\* Configure with skip true; previousTree changes only in Initialize, which
\* clears it, and in a Consume whose diff stage succeeded, which stores the
\* call's tree.
C17_IndependentState ==
  [][/\ (Initialize \/ ConsumeStep \/ BeginsConsume) => SkipDirs' = SkipDirs
     /\ (\E facts \in Facts : Configure(facts)) => previousTree' = previousTree
     /\ SkipDirs' # SkipDirs =>
          /\ pc = "idle" /\ pc' = "idle"
          /\ cfg' = "on"
          /\ call' = NoCall
     /\ previousTree' # previousTree =>
          /\ cfg' = cfg
          /\ \/ previousTree' = None /\ pc = "idle" /\ call' = NoCall
             \/ /\ previousTree' = call'.tree
                /\ call'.stage # None
                /\ pc' = "filter" \/ ret'.err = "nil"]_vars

\* Configure has just set SkipDirs on a TreeDiff that holds a previous tree
C17_Witness ==
  /\ pc = "idle" /\ call = NoCall
  /\ cfg = "on" /\ SkipDirs # <<>>
  /\ previousTree # None

\* C18: every Change Consume returns has an old entry or a new entry; the
\* Changes of a first call have a new entry and no old entry.
C18_ChangeHasAnEntry ==
  ReturnedOk =>
    \A i \in 1..Len(ret.res[1]) :
      /\ ret.res[1][i].From # NoEntry \/ ret.res[1][i].To # NoEntry
      /\ call.branch = "enum" =>
           /\ ret.res[1][i].To # NoEntry
           /\ ret.res[1][i].To.Name # EmptyString
           /\ ret.res[1][i].From = NoEntry

\* a first call that returned Changes
C18_Witness ==
  /\ ReturnedOk /\ call.branch = "enum"
  /\ Len(ret.res[1]) = MaxFiles
  /\ \A i \in 1..Len(ret.res[1]) : IsInsertion(ret.res[1][i])

\* C19: when SkipDirs holds the empty string Consume returns an empty list
\* for every commit, the empty string being a prefix of every path, and
\* previousTree is still set to the commit's tree.
C19_EmptyPrefixDropsAll ==
  (ReturnedOk /\ \E k \in 1..Len(call.dirs) : call.dirs[k] = EmptyString) =>
    /\ ret.res = Some(<<>>)
    /\ previousTree = call.tree
    /\ call.tree # None

\* a diff with a deletion and an insertion, all dropped, the tree stored
C19_Witness ==
  /\ ReturnedOk
  /\ \E k \in 1..Len(call.dirs) : call.dirs[k] = EmptyString
  /\ \E i, j \in 1..Len(call.stage[1]) :
       IsDeletion(call.stage[1][i]) /\ IsInsertion(call.stage[1][j])
  /\ ret.res = Some(<<>>)
  /\ previousTree = call.tree
  /\ call.tree # call.prev

\* the Changes of c that Blacklisted does not drop, built as a new list
FreshFilter(c, dirs) == SelectSeq(c, LAMBDA change : ~Blacklisted(change, dirs))

\* C20: in the loop of the filter the write index never passes the read
\* index: the elements not yet examined are still those of the input, and
\* the elements written so far are what filtering the examined ones into a
\* new list gives; so is the returned list for the whole input.
C20_WriteNeverPassesRead ==
  /\ pc = "filter" =>
       /\ wr <= rd
       /\ rd <= Len(call.stage[1])
       /\ Len(diff) = Len(call.stage[1])
       /\ SubSeq(diff, rd + 1, Len(diff)) = SubSeq(call.stage[1], rd + 1, Len(diff))
       /\ SubSeq(diff, 1, wr) = FreshFilter(SubSeq(call.stage[1], 1, rd), SkipDirs)
  /\ (pc = "idle" /\ call.state = "returned" /\ ret.err = "nil"
        /\ FilterEnabled(call.dirs)) =>
       ret.res = Some(FreshFilter(call.stage[1], call.dirs))

\* mid-loop, after a drop: the second element was written over the first and
\* a third is still to be examined
C20_Witness ==
  /\ pc = "filter"
  /\ rd = 2 /\ wr = 1
  /\ Len(diff) > rd
  /\ diff[1] = call.stage[1][2]
  /\ diff[1] # call.stage[1][1]

====
